---------------------------- MODULE Spec2Model ----------------------------
(***************************************************************************)
(* The ISS tracker (src/iss_tracker.py): a stateless Flask service.  Every *)
(* request fetches the upstream OEM feed, extracts or normalises parts of  *)
(* it and answers from them.  The state of the model is the state of the   *)
(* requests in flight: each worker's position in its handler, the locals   *)
(* of the handler, the external calls it made and the response it built.   *)
(*                                                                         *)
(* Python values are tagged records [t |-> type, v |-> payload]; a raised  *)
(* exception is the value [t |-> "raise", v |-> name] and propagates        *)
(* through every operator that does not catch it.  Strings whose text is   *)
(* inspected (EPOCH, numeric text, timestamps, path segments, query        *)
(* arguments) are sequences of one-character strings.  Floats are modelled *)
(* at integer resolution.                                                  *)
(***************************************************************************)
EXTENDS Integers, Sequences, FiniteSets, TLC

VARIABLES pc, route, args, http, data_dict, locals, ext, resp, globals

vars == <<pc, route, args, http, data_dict, locals, ext, resp, globals>>

-----------------------------------------------------------------------------
(* Python values *)

PyNone == [t |-> "None", v |-> 0]

PyStr(s) == [t |-> "str", v |-> s]

PyInt(n) == [t |-> "int", v |-> n]

PyFloat(n) == [t |-> "float", v |-> n]

PyDict(f) == [t |-> "dict", v |-> f]

PyList(s) == [t |-> "list", v |-> s]

Raise(e) == [t |-> "raise", v |-> e]

IsRaise(x) == x.t = "raise"

EmptyDict == PyDict(<<>>)

EmptyList == PyList(<<>>)

\* obj[key] for a string key: a dict looks the key up (KeyError when absent);
\* None, a str, a list or a number is not subscriptable by a string (TypeError).
GetItem(obj, key) ==
    IF IsRaise(obj) THEN obj
    ELSE IF obj.t = "dict"
         THEN IF key \in DOMAIN obj.v THEN obj.v[key] ELSE Raise("KeyError")
         ELSE Raise("TypeError")

\* obj[path[1]][path[2]]...: evaluated left to right, the first failure raised.
RECURSIVE GetPath(_, _)
GetPath(obj, path) ==
    IF path = <<>> THEN obj
    ELSE GetPath(GetItem(obj, Head(path)), Tail(path))

\* Iterating a value in a for loop: a list yields its elements, a dict its keys
\* and a str its characters (either way strings); anything else is not iterable.
\* The items come back as a list.
RECURSIVE KeySeq(_)
KeySeq(S) ==
    IF S = {} THEN <<>>
    ELSE LET k == CHOOSE k \in S : TRUE
         IN <<PyStr(<<k>>)>> \o KeySeq(S \ {k})

Iterate(obj) ==
    IF IsRaise(obj) THEN obj
    ELSE IF obj.t \in {"list", "tuple"} THEN PyList(obj.v)
    ELSE IF obj.t = "dict" THEN PyList(KeySeq(DOMAIN obj.v))
    ELSE IF obj.t = "str" THEN PyList([i \in 1..Len(obj.v) |-> PyStr(<<obj.v[i]>>)])
    ELSE Raise("TypeError")

-----------------------------------------------------------------------------
(* Text: digits, numbers, str.replace *)

DigitVal(c) ==
    CASE c = "0" -> 0 [] c = "1" -> 1 [] c = "2" -> 2 [] c = "3" -> 3
      [] c = "4" -> 4 [] c = "5" -> 5 [] c = "6" -> 6 [] c = "7" -> 7
      [] c = "8" -> 8 [] c = "9" -> 9

DigitChar(d) == <<"0", "1", "2", "3", "4", "5", "6", "7", "8", "9">>[d + 1]

RECURSIVE Pow10(_)
Pow10(n) == IF n = 0 THEN 1 ELSE 10 * Pow10(n - 1)

\* The number of consecutive digits of s from position i on.
RECURSIVE DigitRun(_, _)
DigitRun(s, i) ==
    IF i <= Len(s) /\ s[i] \in {"0", "1", "2", "3", "4", "5", "6", "7", "8", "9"}
    THEN 1 + DigitRun(s, i + 1) ELSE 0

\* The value of the n digits of s from position i on.
RECURSIVE DigitsValue(_, _, _)
DigitsValue(s, i, n) ==
    IF n = 0 THEN 0
    ELSE 10 * DigitsValue(s, i, n - 1) + DigitVal(s[i + n - 1])

\* n >= 0 written with exactly w digits, zero padded (%02d, %04d, %06d).
ZeroPad(n, w) == [i \in 1..w |-> DigitChar((n \div Pow10(w - i)) % 10)]

\* str(n) of a non-negative integer.
RECURSIVE NatText(_)
NatText(n) == IF n < 10 THEN <<DigitChar(n)>> ELSE NatText(n \div 10) \o <<DigitChar(n % 10)>>

IntText(n) == IF n < 0 THEN <<"-">> \o NatText(-n) ELSE NatText(n)

\* Whether s holds the non-empty sequence old at position i.
MatchAt(s, i, old) ==
    /\ i + Len(old) - 1 <= Len(s)
    /\ \A j \in 1..Len(old) : s[i + j - 1] = old[j]

\* s.replace(old, new) for a non-empty old: the non-overlapping occurrences,
\* found left to right, each replaced.
RECURSIVE ReplaceFrom(_, _, _, _)
ReplaceFrom(s, i, old, new) ==
    IF i > Len(s) THEN <<>>
    ELSE IF MatchAt(s, i, old) THEN new \o ReplaceFrom(s, i + Len(old), old, new)
    ELSE <<s[i]>> \o ReplaceFrom(s, i + 1, old, new)

StrReplace(s, old, new) == ReplaceFrom(s, 1, old, new)

\* The text of an optionally signed run of digits: int(s), and the grammar
\* float(s) shares over the alphabet of digits, signs and letters (no '.', no
\* exponent).  first is the position after the sign, n the digits from there.
FirstDigit(s) == IF s # <<>> /\ s[1] \in {"-", "+"} THEN 2 ELSE 1

IntOfRun(s, first, n) ==
    IF n >= 1 /\ first + n - 1 = Len(s)
    THEN PyInt((IF s[1] = "-" THEN -1 ELSE 1) * DigitsValue(s, first, n))
    ELSE Raise("ValueError")

IntOfText(s) == IntOfRun(s, FirstDigit(s), DigitRun(s, FirstDigit(s)))

\* float(x): a str of that grammar converts; any other text is a ValueError;
\* None, a dict or a list is a TypeError.
PyFloatOf(x) ==
    IF IsRaise(x) THEN x
    ELSE IF x.t \in {"float", "int"} THEN PyFloat(x.v)
    ELSE IF x.t # "str" THEN Raise("TypeError")
    ELSE LET i == IntOfText(x.v) IN IF IsRaise(i) THEN i ELSE PyFloat(i.v)

\* request.args.get(name, default=default, type=int): the default when the
\* argument is absent or int() rejects its text.
ArgsGetInt(raw, default) ==
    IF raw.t # "str" THEN default
    ELSE LET i == IntOfText(raw.v) IN IF IsRaise(i) THEN default ELSE i

-----------------------------------------------------------------------------
(* datetime: strptime, strftime, subtraction (CPython's _strptime and datetime) *)

Num(name, lo, hi, min, max) ==
    [k |-> "num", name |-> name, lo |-> lo, hi |-> hi, min |-> min, max |-> max, c |-> {}]

Frac(name) ==
    [k |-> "frac", name |-> name, lo |-> 1, hi |-> 6, min |-> 0, max |-> 999999, c |-> {}]

Lit(cs) ==
    [k |-> "lit", name |-> "", lo |-> 1, hi |-> 1, min |-> 0, max |-> 0, c |-> cs]

\* "%Y-%jT%H:%M:%S.%fZ" (line 124).  Each directive is the regular expression
\* _strptime gives it: %Y four digits; %j one to three digits, 1..366; %H, %M,
\* %S one or two digits, 0..23, 0..59, 0..61; %f one to six digits.  Letters
\* match in either case.
EpochFormat ==
    << Num("Y", 4, 4, 0, 9999), Lit({"-"}), Num("j", 1, 3, 1, 366), Lit({"T", "t"}),
       Num("H", 1, 2, 0, 23), Lit({":"}), Num("M", 1, 2, 0, 59), Lit({":"}),
       Num("S", 1, 2, 0, 61), Lit({"."}), Frac("f"), Lit({"Z", "z"}) >>

\* '%Y-%m-%d %H:%M:%S.%f' (lines 125, 173-175, 231).  White space in a
\* format (the item of kind "ws") matches one or more white space characters.
TimestampFormat ==
    << Num("Y", 4, 4, 0, 9999), Lit({"-"}), Num("m", 1, 2, 1, 12), Lit({"-"}),
       Num("d", 1, 2, 1, 31),
       [k |-> "ws", name |-> "", lo |-> 1, hi |-> 1, min |-> 0, max |-> 0, c |-> {" "}],
       Num("H", 1, 2, 0, 23), Lit({":"}),
       Num("M", 1, 2, 0, 59), Lit({":"}), Num("S", 1, 2, 0, 61), Lit({"."}),
       Frac("f") >>

RECURSIVE SpaceRun(_, _)
SpaceRun(s, i) ==
    IF i <= Len(s) /\ s[i] = " " THEN 1 + SpaceRun(s, i + 1) ELSE 0

\* The match of the format's regular expression against the whole of s.  Every
\* numeric directive is followed by a literal that is no digit (or by the end),
\* so it can only match the whole run of digits it starts at.
RECURSIVE MatchFormat(_, _, _, _)
\* A numeric directive it at position i, where n digits of value val start.
MatchNumber(s, i, it, n, val, rest, acc) ==
    IF n >= it.lo /\ n <= it.hi /\ val >= it.min /\ val <= it.max
    THEN MatchFormat(s, i + n, rest,
                     [acc EXCEPT ![it.name] = IF it.k = "frac" THEN val * Pow10(6 - n) ELSE val])
    ELSE Raise("ValueError")

\* White space at position i, where n spaces start.
MatchSpace(s, i, n, rest, acc) ==
    IF n >= 1 THEN MatchFormat(s, i + n, rest, acc) ELSE Raise("ValueError")

MatchItem(s, i, it, n, rest, acc) ==
    CASE it.k = "lit" ->
              IF i <= Len(s) /\ s[i] \in it.c
              THEN MatchFormat(s, i + 1, rest, acc)
              ELSE Raise("ValueError")
      [] it.k = "ws" -> MatchSpace(s, i, SpaceRun(s, i), rest, acc)
      [] it.k \in {"num", "frac"} ->
              MatchNumber(s, i, it, n, DigitsValue(s, i, IF n <= it.hi THEN n ELSE 0), rest, acc)

MatchFormat(s, i, fmt, acc) ==
    IF fmt = <<>>
    THEN IF i = Len(s) + 1 THEN [t |-> "fields", v |-> acc] ELSE Raise("ValueError")
    ELSE MatchItem(s, i, Head(fmt), DigitRun(s, i), Tail(fmt), acc)

IsLeap(y) == (y % 4 = 0) /\ ((y % 100 # 0) \/ (y % 400 = 0))

DaysInYear(y) == IF IsLeap(y) THEN 366 ELSE 365

DaysInMonth(y, m) ==
    IF m = 2 THEN (IF IsLeap(y) THEN 29 ELSE 28)
    ELSE IF m \in {4, 6, 9, 11} THEN 30 ELSE 31

DaysBeforeYear(y) ==
    (y - 1) * 365 + ((y - 1) \div 4) - ((y - 1) \div 100) + ((y - 1) \div 400)

RECURSIVE DaysBeforeMonth(_, _)
DaysBeforeMonth(y, m) ==
    IF m = 1 THEN 0 ELSE DaysBeforeMonth(y, m - 1) + DaysInMonth(y, m - 1)

\* date.toordinal()
Ordinal(y, m, d) == DaysBeforeYear(y) + DaysBeforeMonth(y, m) + d

\* The month and day of day n (1 based) of year y, n within the year.
RECURSIVE MonthDay(_, _, _)
MonthDay(y, m, n) ==
    IF n <= DaysInMonth(y, m) THEN <<m, n>> ELSE MonthDay(y, m + 1, n - DaysInMonth(y, m))

DateTime(Y, m, d, H, M, S, f) ==
    [t |-> "datetime", v |-> [Y |-> Y, m |-> m, d |-> d, H |-> H, M |-> M, S |-> S, f |-> f]]

\* The date of day n of year y (n within the year) with the time of fields g.
DateOfYearDay(y, n, g) ==
    IF y > 9999 THEN Raise("ValueError")
    ELSE LET md == MonthDay(y, 1, n) IN DateTime(y, md[1], md[2], g.H, g.M, g.S, g.f)

\* The datetime of matched fields.  With %j the date is
\* fromordinal(j - 1 + date(Y, 1, 1).toordinal()): day 366 of a common year is
\* 1 January of the next.  The constructors reject year 0, a year past 9999, a
\* day past the month's end and second 60 or 61.
FieldsToDateTime(g, julian) ==
    IF g.Y < 1 \/ g.S > 59 THEN Raise("ValueError")
    ELSE IF julian
    THEN IF g.j > DaysInYear(g.Y)
         THEN DateOfYearDay(g.Y + 1, g.j - DaysInYear(g.Y), g)
         ELSE DateOfYearDay(g.Y, g.j, g)
    ELSE IF g.d > DaysInMonth(g.Y, g.m) THEN Raise("ValueError")
    ELSE DateTime(g.Y, g.m, g.d, g.H, g.M, g.S, g.f)

DateTimeOfMatch(g, julian) == IF IsRaise(g) THEN g ELSE FieldsToDateTime(g.v, julian)

\* datetime.strptime(x, fmt): TypeError unless x is a str, ValueError unless
\* the text matches the format and names a date that exists.
Strptime(x, fmt, julian) ==
    IF IsRaise(x) THEN x
    ELSE IF x.t # "str" THEN Raise("TypeError")
    ELSE DateTimeOfMatch(MatchFormat(x.v, 1, fmt,
                                     [Y |-> 0, j |-> 0, m |-> 0, d |-> 0,
                                      H |-> 0, M |-> 0, S |-> 0, f |-> 0]),
                         julian)

\* datetime.strftime(dt, '%Y-%m-%d %H:%M:%S.%f') for a year of four digits.
Strftime(dt) ==
    IF IsRaise(dt) THEN dt
    ELSE PyStr(ZeroPad(dt.v.Y, 4) \o <<"-">> \o ZeroPad(dt.v.m, 2) \o <<"-">>
               \o ZeroPad(dt.v.d, 2) \o <<" ">> \o ZeroPad(dt.v.H, 2) \o <<":">>
               \o ZeroPad(dt.v.M, 2) \o <<":">> \o ZeroPad(dt.v.S, 2) \o <<".">>
               \o ZeroPad(dt.v.f, 6))

\* timedelta(days, seconds, microseconds), normalised as CPython does:
\* 0 <= microseconds < 10^6, 0 <= seconds < 86400, days of either sign.
TimeDelta(days, seconds, us) ==
    LET s1 == seconds + (us \div 1000000)
    IN <<days + (s1 \div 86400), s1 % 86400, us % 1000000>>

\* a - b for two naive datetimes.
DateTimeSub(a, b) ==
    TimeDelta(Ordinal(a.v.Y, a.v.m, a.v.d) - Ordinal(b.v.Y, b.v.m, b.v.d),
              (a.v.H * 3600 + a.v.M * 60 + a.v.S) - (b.v.H * 3600 + b.v.M * 60 + b.v.S),
              a.v.f - b.v.f)

\* abs(td): -td when days < 0.
TimeDeltaAbs(td) == IF td[1] < 0 THEN TimeDelta(-td[1], -td[2], -td[3]) ELSE td

\* td1 < td2: the comparison of the (days, seconds, microseconds) triples.
TimeDeltaLess(a, b) ==
    \/ a[1] < b[1]
    \/ a[1] = b[1] /\ a[2] < b[2]
    \/ a[1] = b[1] /\ a[2] = b[2] /\ a[3] < b[3]

-----------------------------------------------------------------------------
(* fetch_data and the extractors *)

\* What the formatted log message of fetch_data's except clauses evaluates to:
\* it reads the local `response`, which is bound only once requests.get has
\* returned.
FetchErrorMessage(responseBound) ==
    IF responseBound THEN PyStr(<<"Error">>) ELSE Raise("UnboundLocalError")

\* An except clause of fetch_data: logging.error(message), then return.
LogAndReturn(message) == IF IsRaise(message) THEN message ELSE PyNone

\* fetch_data() against one upstream exchange up: requests.get raises
\* (up.raised) or returns a response with a status and a body, which
\* xmltodict.parse turns into up.tree or rejects (not up.wf).
FetchData(up) ==
    IF up.raised THEN LogAndReturn(FetchErrorMessage(FALSE))
    ELSE IF up.status # 200 THEN LogAndReturn(FetchErrorMessage(TRUE))
    ELSE IF ~up.wf THEN LogAndReturn(FetchErrorMessage(TRUE))
    ELSE up.tree

HeaderPath == <<"ndm", "oem", "header">>

CommentPath == <<"ndm", "oem", "body", "segment", "data", "COMMENT">>

MetadataPath == <<"ndm", "oem", "body", "segment", "metadata">>

StateVectorPath == <<"ndm", "oem", "body", "segment", "data", "stateVector">>

\* try: ... = <value> / except KeyError: return <empty>
ExceptKeyError(value, empty) == IF value = Raise("KeyError") THEN empty ELSE value

FormatHeader(dd) == ExceptKeyError(GetPath(dd, HeaderPath), EmptyDict)

FormatComment(dd) == ExceptKeyError(GetPath(dd, CommentPath), EmptyList)

FormatMetadata(dd) == ExceptKeyError(GetPath(dd, MetadataPath), EmptyDict)

-----------------------------------------------------------------------------
(* format_data *)

\* The first raised exception of a sequence of evaluated expressions, in
\* evaluation order; PyNone when none raised.
RECURSIVE FirstRaise(_)
FirstRaise(vals) ==
    IF vals = <<>> THEN PyNone
    ELSE IF IsRaise(Head(vals)) THEN Head(vals)
    ELSE FirstRaise(Tail(vals))

\* float(stateVector[key]['#text'])
NumericField(stateVector, key) == PyFloatOf(GetItem(GetItem(stateVector, key), "#text"))

\* The dict of lines 126-134 from its evaluated fields, or the exception the
\* first failing one raised.
RecordOf(fields) ==
    IF IsRaise(FirstRaise(fields)) THEN FirstRaise(fields)
    ELSE PyDict([timestamp |-> fields[1], x |-> fields[2], y |-> fields[3],
                 z |-> fields[4], dx |-> fields[5], dy |-> fields[6], dz |-> fields[7]])

\* The body of the loop's try block for one entry: the record appended, or the
\* exception raised before the append.
FormatStateVector(stateVector) ==
    RecordOf(<< Strftime(Strptime(GetItem(stateVector, "EPOCH"), EpochFormat, TRUE)),
                NumericField(stateVector, "X"), NumericField(stateVector, "Y"),
                NumericField(stateVector, "Z"), NumericField(stateVector, "X_DOT"),
                NumericField(stateVector, "Y_DOT"), NumericField(stateVector, "Z_DOT") >>)

\* A loop whose except clauses named KeyError alone.
EntryCaughtKeyError(e) == e.v = "KeyError"

\* The exceptions the loop's except clauses catch (each logs and continues).
EntryCaught(e) == e.v \in {"KeyError", "ValueError", "TypeError"}

\* for stateVector in data_list: ... from entry i on, formatted_data so far.
RECURSIVE FormatLoop(_, _, _)
\* Entry i done as r: appended, or skipped by an except clause's continue.
FormatNext(data_list, i, formatted_data, r) ==
    IF IsRaise(r)
    THEN IF EntryCaught(r) THEN FormatLoop(data_list, i + 1, formatted_data) ELSE r
    ELSE FormatLoop(data_list, i + 1, Append(formatted_data, r))

FormatLoop(data_list, i, formatted_data) ==
    IF i > Len(data_list) THEN PyList(formatted_data)
    ELSE FormatNext(data_list, i, formatted_data, FormatStateVector(data_list[i]))

FormatItems(items) == IF IsRaise(items) THEN items ELSE FormatLoop(items.v, 1, <<>>)

\* Lines 116-122: the extraction, and the loop over what it found.
FormatList(data_list) ==
    IF data_list = Raise("KeyError") THEN EmptyList ELSE FormatItems(Iterate(data_list))

FormatData(dd) == FormatList(GetPath(dd, StateVectorPath))

-----------------------------------------------------------------------------
(* The query functions *)

TimeDeltaKey(current_time, ts) ==
    IF IsRaise(ts) THEN ts
    ELSE [t |-> "timedelta", v |-> TimeDeltaAbs(DateTimeSub(current_time, ts))]

\* The key of min() at line 175: abs(current_time - strptime(x['timestamp'])).
ClosestKey(x, current_time) ==
    TimeDeltaKey(current_time, Strptime(GetItem(x, "timestamp"), TimestampFormat, FALSE))

\* A min() that lets a later item with an equal key replace its candidate.
KeyReplacesOrEqual(key, best) == ~TimeDeltaLess(best.v, key.v)

\* min() replaces its candidate only by an item whose key is strictly less.
KeyReplaces(key, best) == TimeDeltaLess(key.v, best.v)

RECURSIVE MinLoop(_, _, _, _)
MinLoop(items, keys, i, best) ==
    IF i > Len(items) THEN items[best]
    ELSE IF KeyReplaces(keys[i], keys[best]) THEN MinLoop(items, keys, i + 1, i)
    ELSE MinLoop(items, keys, i + 1, best)

MinByKeys(items, keys) ==
    IF IsRaise(FirstRaise(keys)) THEN FirstRaise(keys) ELSE MinLoop(items, keys, 2, 1)

\* min(iterable, key=...): TypeError when not iterable, ValueError when empty,
\* the key's exception when a key raises.
MinOfItems(items, current_time) ==
    IF IsRaise(items) THEN items
    ELSE IF items.v = <<>> THEN Raise("ValueError")
    ELSE MinByKeys(items.v, [i \in 1..Len(items.v) |-> ClosestKey(items.v[i], current_time)])

PyMin(iterable, current_time) == MinOfItems(Iterate(iterable), current_time)

\* A find_closest_epoch without its except clause.
ClosestOrRaise(closest_epoch) == closest_epoch

\* try: ... return closest_epoch / except (ValueError, TypeError): return
ClosestOrNone(closest_epoch) ==
    IF IsRaise(closest_epoch) /\ closest_epoch.v \in {"ValueError", "TypeError"}
    THEN PyNone
    ELSE closest_epoch

\* find_closest_epoch(formatted_data) when datetime.now(pytz.utc) reads clock.
FindClosestEpoch(formatted_data, clock) ==
    ClosestOrNone(PyMin(formatted_data, Strptime(Strftime(clock), TimestampFormat, FALSE)))

\* x ** 2 of a float.
Squared(x) ==
    IF IsRaise(x) THEN x
    ELSE IF x.t \in {"float", "int"} THEN PyFloat(x.v * x.v)
    ELSE Raise("TypeError")

\* Lines 212-218 from the three squares: math.sqrt(n) is kept exact, as the
\* root of n.
SpeedOf(squares) ==
    IF IsRaise(FirstRaise(squares))
    THEN IF FirstRaise(squares).v \in {"KeyError", "TypeError"} THEN PyNone
         ELSE FirstRaise(squares)
    ELSE [t |-> "sqrt", v |-> squares[1].v + squares[2].v + squares[3].v]

\* calculate_instantaneous_speed(closest_epoch)
CalculateInstantaneousSpeed(closest_epoch) ==
    SpeedOf(<< Squared(GetItem(closest_epoch, "dx")), Squared(GetItem(closest_epoch, "dy")),
               Squared(GetItem(closest_epoch, "dz")) >>)

\* calculate_data_range(formatted_data): formatted_data[0] and
\* formatted_data[-1] raise IndexError on an empty list, which the except
\* clause turns into a bare return; a KeyError of ['timestamp'] is not caught.
CalculateDataRange(formatted_data) ==
    LET first_epoch ==
            IF formatted_data.t # "list" THEN Raise("TypeError")
            ELSE IF formatted_data.v = <<>> THEN Raise("IndexError")
            ELSE GetItem(formatted_data.v[1], "timestamp")
        last_epoch ==
            IF IsRaise(first_epoch) THEN first_epoch
            ELSE GetItem(formatted_data.v[Len(formatted_data.v)], "timestamp")
    IN IF IsRaise(last_epoch)
       THEN IF last_epoch.v = "IndexError" THEN PyNone ELSE last_epoch
       ELSE [t |-> "tuple", v |-> <<first_epoch, last_epoch>>]

\* calculate_average_speed(formatted_data): the loop adds math.sqrt(...) of
\* each record to total_speed, then total_speed / len(formatted_data), which
\* is 0 / 0 on an empty list; KeyError, TypeError and ZeroDivisionError are
\* turned into a bare return.  The quotient is kept exact, as the radicands
\* summed and the divisor.
CalculateAverageSpeed(formatted_data) ==
    LET items == Iterate(formatted_data)
        squares(data) == << Squared(GetItem(data, "dx")), Squared(GetItem(data, "dy")),
                            Squared(GetItem(data, "dz")) >>
        term(data) == IF IsRaise(FirstRaise(squares(data))) THEN FirstRaise(squares(data))
                      ELSE PyInt(squares(data)[1].v + squares(data)[2].v + squares(data)[3].v)
        total_speed == IF IsRaise(items) THEN items
                       ELSE FirstRaise([i \in 1..Len(items.v) |-> term(items.v[i])])
        average == IF IsRaise(total_speed) THEN total_speed
                   ELSE IF Len(items.v) = 0 THEN Raise("ZeroDivisionError")
                   ELSE [t |-> "mean_of_sqrt",
                         v |-> [i \in 1..Len(items.v) |-> term(items.v[i]).v]]
    IN IF IsRaise(average) /\ average.v \in {"KeyError", "TypeError", "ZeroDivisionError"}
       THEN PyNone
       ELSE average

-----------------------------------------------------------------------------
(* cartesian_to_geo *)

\* An external call the handler did not make.
NotCalled == [kind |-> "not_called", exc |-> "", lat |-> 0, lon |-> 0, alt |-> 0, address |-> ""]

\* The frame transform (lines 239-241) delivered an EarthLocation.
TransformOk(lat, lon, alt) ==
    [kind |-> "ok", exc |-> "", lat |-> lat, lon |-> lon, alt |-> alt, address |-> ""]

\* An external call raised exception exc.
CallRaised(exc) ==
    [kind |-> "raise", exc |-> exc, lat |-> 0, lon |-> 0, alt |-> 0, address |-> ""]

\* geocoder.reverse returned a Location with this address.
GeoLocation(address) ==
    [kind |-> "location", exc |-> "", lat |-> 0, lon |-> 0, alt |-> 0, address |-> address]

\* geocoder.reverse returned None.
GeoNone == [kind |-> "none", exc |-> "", lat |-> 0, lon |-> 0, alt |-> 0, address |-> ""]

\* The correction without its wrap: lon = ears.lon.deg + 90 - 15 alone.
CorrectLonNoWrap(deg) == deg + 90 - 15

\* lon = ears.lon.deg + 90 - 15; if lon > 180: lon -= 180*2
CorrectLon(deg) ==
    IF deg + 90 - 15 > 180 THEN deg + 90 - 15 - 180 * 2 ELSE deg + 90 - 15

\* geoloc.address if geoloc else "Over Ocean or Unknown"
PlaceOf(geoloc) ==
    IF geoloc.kind = "location" THEN PyStr(<<geoloc.address>>)
    ELSE PyStr(<<"Over Ocean or Unknown">>)

\* CartesianRepresentation(*[x, y, z], unit=km) takes numbers.
AsQuantity(x) ==
    IF IsRaise(x) THEN x
    ELSE IF x.t \in {"float", "int"} THEN x
    ELSE Raise("TypeError")

\* The outcome of a call: rv is the value returned or the exception raised,
\* transform and geocode are the external calls made on the way.
Outcome(rv, transform, geocode) == [rv |-> rv, transform |-> transform, geocode |-> geocode]

\* Lines 248-261: from the corrected longitude to the returned list, given the
\* EarthLocation ears and what geocoder.reverse does (geoloc).
GeoFromEars(ears, geoloc) ==
    IF geoloc.kind = "raise" THEN Raise(geoloc.exc)
    ELSE PyList(<< PyDict([lat |-> PyFloat(ears.lat),
                           lon |-> PyFloat(CorrectLon(ears.lon)),
                           alt |-> PyFloat(ears.alt),
                           geoloc |-> PlaceOf(geoloc)]) >>)

\* Lines 237-261 once the timestamp is converted: cart is the exception the
\* position fields raised, if any; the frame transform does tr and
\* geocoder.reverse does gc when they are called.  An exception the second
\* try block does not name is logged by the bare except and execution goes
\* on to line 248, where ears is unbound.
GeoOfPosition(cart, tr, gc) ==
    IF IsRaise(cart)
    THEN IF cart.v \in {"KeyError", "TypeError"}
         THEN Outcome(PyNone, NotCalled, NotCalled)
         ELSE Outcome(Raise("UnboundLocalError"), NotCalled, NotCalled)
    ELSE IF tr.kind = "raise"
    THEN IF tr.exc \in {"KeyError", "TypeError"}
         THEN Outcome(PyNone, tr, NotCalled)
         ELSE Outcome(Raise("UnboundLocalError"), tr, NotCalled)
    ELSE Outcome(GeoFromEars(tr, gc), tr, gc)

\* Lines 230-235, then the rest.
GeoAt(unix_timestamp, epoch, tr, gc) ==
    IF IsRaise(unix_timestamp)
    THEN IF unix_timestamp.v \in {"KeyError", "TypeError"}
         THEN Outcome(PyNone, NotCalled, NotCalled)
         ELSE Outcome(unix_timestamp, NotCalled, NotCalled)
    ELSE GeoOfPosition(FirstRaise(<< AsQuantity(GetItem(epoch, "x")),
                                     AsQuantity(GetItem(epoch, "y")),
                                     AsQuantity(GetItem(epoch, "z")) >>), tr, gc)

\* cartesian_to_geo(epoch)
CartesianToGeo(epoch, tr, gc) ==
    GeoAt(Strptime(GetItem(epoch, "timestamp"), TimestampFormat, FALSE), epoch, tr, gc)

-----------------------------------------------------------------------------
(* The route handlers and Flask *)

\* A local a handler has not assigned.
Unset == [t |-> "unset", v |-> 0]

\* A handler's run after its fetch: the value it returns (or the exception
\* that leaves it), its locals, and the clock read and external calls made.
Run(rv, formatted_data, closest_epoch, speed, geo, clock, transform, geocode) ==
    [rv |-> rv, formatted_data |-> formatted_data, closest_epoch |-> closest_epoch,
     speed |-> speed, geo |-> geo, clock |-> clock, transform |-> transform,
     geocode |-> geocode]

\* The handler ended at once, returning or raising rv.
Ended(rv) == Run(rv, Unset, Unset, Unset, Unset, Unset, NotCalled, NotCalled)

\* The handler ended after format_data, returning or raising rv.
EndedWith(rv, formatted_data) ==
    Run(rv, formatted_data, Unset, Unset, Unset, Unset, NotCalled, NotCalled)

GetHeader(dd) == IF IsRaise(dd) THEN Ended(dd) ELSE Ended(FormatHeader(dd))

GetComment(dd) == IF IsRaise(dd) THEN Ended(dd) ELSE Ended(FormatComment(dd))

GetMetadata(dd) == IF IsRaise(dd) THEN Ended(dd) ELSE Ended(FormatMetadata(dd))

\* Python's index clamping of a slice bound against a list of length n.
SliceIndex(i, n) ==
    IF i < 0 THEN (IF i + n < 0 THEN 0 ELSE i + n)
    ELSE (IF i > n THEN n ELSE i)

\* list[start:stop], stop an int or None.
PySlice(list, start, stop) ==
    PyList(SubSeq(list.v, SliceIndex(start.v, Len(list.v)) + 1,
                  IF stop.t = "None" THEN Len(list.v) ELSE SliceIndex(stop.v, Len(list.v))))

\* The slice formatted_data[offset:limit], its end not moved by the offset.
EpochsSliceToLimit(formatted_data, limit, offset) ==
    IF limit.t # "None"
    THEN PySlice(formatted_data, offset, limit)
    ELSE PySlice(formatted_data, offset, PyNone)

\* formatted_data[offset:offset+limit] or formatted_data[offset:]
EpochsSlice(formatted_data, limit, offset) ==
    IF limit.t # "None"
    THEN PySlice(formatted_data, offset, PyInt(offset.v + limit.v))
    ELSE PySlice(formatted_data, offset, PyNone)

\* get_epochs from line 314 on.
EpochsOf(formatted_data, a) ==
    IF IsRaise(formatted_data) THEN EndedWith(formatted_data, formatted_data)
    ELSE EndedWith(EpochsSlice(formatted_data, ArgsGetInt(a.limit, PyNone),
                               ArgsGetInt(a.offset, PyInt(0))),
                   formatted_data)

GetEpochs(dd, a) == IF IsRaise(dd) THEN Ended(dd) ELSE EpochsOf(FormatData(dd), a)

\* The two replacements in the other order: colons first.
DecodeEpochColonFirst(epoch) ==
    StrReplace(StrReplace(epoch, <<"_">>, <<":">>), <<"_", "_">>, <<" ">>)

\* epoch.replace("__", " ").replace("_", ":")
DecodeEpoch(epoch) == StrReplace(StrReplace(epoch, <<"_", "_">>, <<" ">>), <<"_">>, <<":">>)

\* for data in formatted_data: if data['timestamp'] == epoch: the index of the
\* record the loop stops at, 0 when it runs to the end.
RECURSIVE FindEpoch(_, _, _)
FindEpoch(formatted_data, epoch, i) ==
    IF i > Len(formatted_data) THEN 0
    ELSE IF GetItem(formatted_data[i], "timestamp") = PyStr(epoch) THEN i
    ELSE FindEpoch(formatted_data, epoch, i + 1)

\* The index FindEpoch gives in the list format_data returned, 0 also when
\* format_data raised.
EpochIndex(formatted_data, epoch) ==
    IF IsRaise(formatted_data) THEN 0 ELSE FindEpoch(formatted_data.v, epoch, 1)

NotFound ==
    [t |-> "tuple", v |-> << PyDict([error |-> PyStr(<<"Epoch not found">>)]), PyInt(404) >>]

\* get_epoch from line 338 on; i is where the loop stops.
EpochAt(formatted_data, i) ==
    IF IsRaise(formatted_data) THEN EndedWith(formatted_data, formatted_data)
    ELSE IF i = 0 THEN EndedWith(NotFound, formatted_data)
    ELSE EndedWith(formatted_data.v[i], formatted_data)

EpochOf(formatted_data, epoch) == EpochAt(formatted_data, EpochIndex(formatted_data, epoch))

GetEpoch(dd, a) ==
    IF IsRaise(dd) THEN Ended(dd) ELSE EpochOf(FormatData(dd), DecodeEpoch(a.epoch))

\* Lines 359-360.
SpeedRun(formatted_data, speed) ==
    IF IsRaise(speed)
    THEN Run(speed, formatted_data, Unset, speed, Unset, Unset, NotCalled, NotCalled)
    ELSE Run(PyDict([speed |-> speed]), formatted_data, Unset, speed, Unset, Unset,
             NotCalled, NotCalled)

\* get_epoch_speed from line 357 on; i is where the loop stops.
SpeedAt(formatted_data, i) ==
    IF IsRaise(formatted_data) THEN EndedWith(formatted_data, formatted_data)
    ELSE IF i = 0 THEN EndedWith(NotFound, formatted_data)
    ELSE SpeedRun(formatted_data, CalculateInstantaneousSpeed(formatted_data.v[i]))

SpeedOfEpoch(formatted_data, epoch) == SpeedAt(formatted_data, EpochIndex(formatted_data, epoch))

GetEpochSpeed(dd, a) ==
    IF IsRaise(dd) THEN Ended(dd) ELSE SpeedOfEpoch(FormatData(dd), DecodeEpoch(a.epoch))

\* Lines 379-380.
LocationRun(formatted_data, geo) ==
    Run(geo.rv, formatted_data, Unset, Unset, geo.rv, Unset, geo.transform, geo.geocode)

\* get_epoch_location from line 377 on; i is where the loop stops.
LocationAt(formatted_data, i, tr, gc) ==
    IF IsRaise(formatted_data) THEN EndedWith(formatted_data, formatted_data)
    ELSE IF i = 0 THEN EndedWith(NotFound, formatted_data)
    ELSE LocationRun(formatted_data, CartesianToGeo(formatted_data.v[i], tr, gc))

LocationOfEpoch(formatted_data, epoch, tr, gc) ==
    LocationAt(formatted_data, EpochIndex(formatted_data, epoch), tr, gc)

GetEpochLocation(dd, a, tr, gc) ==
    IF IsRaise(dd) THEN Ended(dd)
    ELSE LocationOfEpoch(FormatData(dd), DecodeEpoch(a.epoch), tr, gc)

\* Line 396, or the exception that left cartesian_to_geo.
NowGeo(formatted_data, closest_epoch, speed, geo, clock) ==
    Run(IF IsRaise(geo.rv) THEN geo.rv
        ELSE PyDict([closest_epoch |-> closest_epoch, speed |-> speed, geo |-> geo.rv]),
        formatted_data, closest_epoch, speed, geo.rv, clock, geo.transform, geo.geocode)

\* Line 395.
NowSpeed(formatted_data, closest_epoch, speed, clock, tr, gc) ==
    IF IsRaise(speed)
    THEN Run(speed, formatted_data, closest_epoch, speed, Unset, clock, NotCalled, NotCalled)
    ELSE NowGeo(formatted_data, closest_epoch, speed, CartesianToGeo(closest_epoch, tr, gc),
                clock)

\* Line 394.
NowClosest(formatted_data, closest_epoch, clock, tr, gc) ==
    IF IsRaise(closest_epoch)
    THEN Run(closest_epoch, formatted_data, closest_epoch, Unset, Unset, clock,
             NotCalled, NotCalled)
    ELSE NowSpeed(formatted_data, closest_epoch, CalculateInstantaneousSpeed(closest_epoch),
                  clock, tr, gc)

\* Line 393.
NowOf(formatted_data, clock, tr, gc) ==
    IF IsRaise(formatted_data) THEN EndedWith(formatted_data, formatted_data)
    ELSE NowClosest(formatted_data, FindClosestEpoch(formatted_data, clock), clock, tr, gc)

GetNow(dd, clock, tr, gc) ==
    IF IsRaise(dd) THEN Ended(dd) ELSE NowOf(FormatData(dd), clock, tr, gc)

\* The handler Flask dispatches the route to, run on the fetched document dd
\* with arguments a; clock, tr and gc are what the clock, the frame transform
\* and the geocoder answer if asked.
View(r, a, dd, clock, tr, gc) ==
    CASE r = "/header" -> GetHeader(dd)
      [] r = "/comment" -> GetComment(dd)
      [] r = "/metadata" -> GetMetadata(dd)
      [] r = "/epochs" -> GetEpochs(dd, a)
      [] r = "/epochs/<epoch>" -> GetEpoch(dd, a)
      [] r = "/epochs/<epoch>/speed" -> GetEpochSpeed(dd, a)
      [] r = "/epochs/<epoch>/location" -> GetEpochLocation(dd, a, tr, gc)
      [] r = "/now" -> GetNow(dd, clock, tr, gc)

\* Flask's response to what a view returned: a dict or a list is sent as JSON
\* with status 200, a (body, status) tuple with that status; an exception, or
\* a view returning None (Flask's TypeError), is a 500.
FlaskResponse(rv) ==
    IF IsRaise(rv) THEN [status |-> 500, body |-> rv]
    ELSE IF rv.t = "None" THEN [status |-> 500, body |-> Raise("TypeError")]
    ELSE IF rv.t = "tuple" THEN [status |-> rv.v[2].v, body |-> rv.v[1]]
    ELSE [status |-> 200, body |-> rv]

-----------------------------------------------------------------------------
(* The environment: what the feed, the clients, the clock, the frame        *)
(* transform and the geocoder can present                                   *)

MaxEntries == 2

MaxArg == 2

LonStep == 60

\* An EPOCH as the feed writes it: YYYY-DDDThh:mm:ss.fffZ
EpochText(Y, j, H) ==
    ZeroPad(Y, 4) \o <<"-">> \o ZeroPad(j, 3) \o <<"T">> \o ZeroPad(H, 2)
    \o <<":", "0", "0", ":", "0", "0", ".", "0", "0", "0", "Z">>

\* An element with a units attribute: {'@units': ..., '#text': text}
Attr(units, text) == PyDict(("@units" :> PyStr(<<units>>)) @@ ("#text" :> PyStr(text)))

StateVector(epoch, x, y, z, dx, dy, dz) ==
    PyDict([EPOCH |-> PyStr(epoch),
            X |-> Attr("km", IntText(x)), Y |-> Attr("km", IntText(y)),
            Z |-> Attr("km", IntText(z)), X_DOT |-> Attr("km/s", IntText(dx)),
            Y_DOT |-> Attr("km/s", IntText(dy)), Z_DOT |-> Attr("km/s", IntText(dz))])

\* 29 February 2024, noon.
EntryA == StateVector(EpochText(2024, 60, 12), 1, -2, 3, 4, -5, 6)

\* 1 March 2024, noon.
EntryB == StateVector(EpochText(2024, 61, 12), -7, 8, -9, 10, -11, 12)

\* The instant of EntryA once more, written without padding, other values.
EntryA2 ==
    StateVector(<<"2", "0", "2", "4", "-", "6", "0", "t", "1", "2", ":", "0", ":", "0", ".", "0", "z">>,
                13, -14, 15, 16, -17, 18)

\* EntryB without its Z_DOT element.
EntryNoKey == PyDict([k \in DOMAIN EntryB.v \ {"Z_DOT"} |-> EntryB.v[k]])

\* Day 367 of the year.
EntryBadEpoch == StateVector(EpochText(2024, 367, 12), 1, 1, 1, 1, 1, 1)

\* An empty X element, which xmltodict parses to None.
EntryNoText == PyDict([EntryA.v EXCEPT !["X"] = PyNone])

Entries == {EntryA, EntryB, EntryA2, EntryNoKey, EntryBadEpoch, EntryNoText}

Header == PyDict([CREATION_DATE |-> PyStr(<<"2024-060T00:00:00.000Z">>), ORIGINATOR |-> PyStr(<<"JSC">>)])

Metadata == PyDict([OBJECT_NAME |-> PyStr(<<"ISS">>), REF_FRAME |-> PyStr(<<"EME2000">>)])

Comment == PyList(<<PyStr(<<"COMMENT LINE 1">>), PyStr(<<"COMMENT LINE 2">>)>>)

\* The document of a feed whose data element is data.
DocWithData(data) ==
    PyDict([ndm |-> PyDict([oem |-> PyDict([header |-> Header,
        body |-> PyDict([segment |-> PyDict([metadata |-> Metadata, data |-> data])])])])])

\* A well-formed feed with these state vectors.
FeedDoc(stateVectors) ==
    DocWithData(PyDict([COMMENT |-> Comment, stateVector |-> PyList(stateVectors)]))

\* Documents that break the key paths: another root element; an empty root;
\* no body; no header and an empty data element; a data element without state
\* vectors; a single state vector, which xmltodict parses to a dict, not a list.
BrokenDocs ==
    { PyDict([html |-> PyNone]),
      PyDict([ndm |-> PyNone]),
      PyDict([ndm |-> PyDict([oem |-> PyDict([header |-> Header])])]),
      PyDict([ndm |-> PyDict([oem |-> PyDict([
          body |-> PyDict([segment |-> PyDict([metadata |-> Metadata, data |-> PyNone])])])])]),
      DocWithData(PyDict([COMMENT |-> Comment])),
      DocWithData(PyDict([COMMENT |-> Comment, stateVector |-> EntryA])) }

\* One exchange with the upstream: requests.get raised, or returned a response
\* with a status and a body that is well-formed XML for tree or is not.
GetRaised == [raised |-> TRUE, status |-> 0, wf |-> FALSE, tree |-> PyNone]

Response(status, wf, tree) == [raised |-> FALSE, status |-> status, wf |-> wf, tree |-> tree]

Upstreams(docs) ==
    {GetRaised, Response(503, TRUE, FeedDoc(<<EntryA>>)), Response(200, FALSE, PyNone)}
    \cup {Response(200, TRUE, d) : d \in docs}

Absent == PyNone

IntArgs(n) == {Absent} \cup {PyStr(IntText(i)) : i \in 0..n}

Timestamp(Y, m, d, H) == Strftime(DateTime(Y, m, d, H, 0, 0, 0)).v

\* What a client writes for a timestamp: replace(" ", "__").replace(":", "_")
\* (src/test/test_iss_tracker.py, line 170).
EncodeEpoch(ts) == StrReplace(StrReplace(ts, <<" ">>, <<"_", "_">>), <<":">>, <<"_">>)

\* Path segments: the timestamps of EntryA and EntryB encoded, a timestamp no
\* entry has, EntryA's with its space and colons left in, and EntryA's with
\* single underscores throughout.
Segments ==
    { EncodeEpoch(Timestamp(2024, 2, 29, 12)),
      EncodeEpoch(Timestamp(2024, 3, 1, 12)),
      EncodeEpoch(Timestamp(2024, 3, 2, 12)),
      Timestamp(2024, 2, 29, 12),
      StrReplace(Timestamp(2024, 2, 29, 12), <<" ">>, <<"_">>) }

\* The clock: an hour before EntryA, midway between EntryA and EntryB, and
\* years after both.
Clocks ==
    { DateTime(2024, 2, 29, 11, 0, 0, 0),
      DateTime(2024, 3, 1, 0, 0, 0, 0),
      DateTime(2026, 11, 3, 9, 30, 15, 250000) }

\* Longitudes the transform can deliver, in degrees: a grid over [-180, 180],
\* both ends, and the two values either side of the wrap.
Longitudes ==
    {-180, 105, 106, 180} \cup {l \in -180..180 : (l + 180) % LonStep = 0}

\* The transform delivers a latitude in [-90, 90] with each longitude, or
\* raises: a TypeError, or an error of the transform's own.
Transforms(lons) ==
    {TransformOk(l \div 2, l, 420) : l \in lons}
    \cup {CallRaised("TypeError"), CallRaised("ConvertError")}

Routes ==
    {"/header", "/comment", "/metadata", "/epochs", "/epochs/<epoch>",
     "/epochs/<epoch>/speed", "/epochs/<epoch>/location", "/now"}

\* The inputs of the sequential specification.
Universe ==
    [ups |-> Upstreams({FeedDoc(l) : l \in UNION {[1..k -> Entries] : k \in 0..MaxEntries}}
                      \cup BrokenDocs),
     limits |-> IntArgs(MaxArg), offsets |-> IntArgs(MaxArg), segs |-> Segments,
     clocks |-> Clocks, trs |-> Transforms(Longitudes),
     gcs |-> {GeoLocation("Houston, Texas, United States"), GeoNone,
              CallRaised("GeocoderUnavailable")}]

NoArgs == [limit |-> Absent, offset |-> Absent, epoch |-> <<>>]

\* The requests a client can make of route r.
ArgsOf(r, U) ==
    IF r = "/epochs" THEN {[limit |-> l, offset |-> o, epoch |-> <<>>] : l \in U.limits, o \in U.offsets}
    ELSE IF r \in {"/epochs/<epoch>", "/epochs/<epoch>/speed", "/epochs/<epoch>/location"}
    THEN {[limit |-> Absent, offset |-> Absent, epoch |-> e] : e \in U.segs}
    ELSE {NoArgs}

-----------------------------------------------------------------------------
(* The state machine *)

NoUpstream == [raised |-> FALSE, status |-> 0, wf |-> FALSE, tree |-> PyNone]

NoLocals ==
    [rv |-> Unset, formatted_data |-> Unset, closest_epoch |-> Unset, speed |-> Unset,
     geo |-> Unset]

NoCalls == [clock |-> Unset, transform |-> NotCalled, geocode |-> NotCalled]

NoResponse == [status |-> 0, body |-> Unset]

\* The module globals of lines 19-21 (app aside).
ModuleGlobals ==
    [url |-> "https://nasa-public-data.s3.amazonaws.com/iss-coords/current/ISS_OEM/ISS.OEM_J2K_EPH.xml",
     geocoder |-> "iss_tracker"]

InitWith(W) ==
    /\ pc = [w \in W |-> "idle"]
    /\ route = [w \in W |-> ""]
    /\ args = [w \in W |-> NoArgs]
    /\ http = [w \in W |-> [gets |-> 0, up |-> NoUpstream]]
    /\ data_dict = [w \in W |-> Unset]
    /\ locals = [w \in W |-> NoLocals]
    /\ ext = [w \in W |-> NoCalls]
    /\ resp = [w \in W |-> NoResponse]
    /\ globals = ModuleGlobals

\* A request arrives for worker w and its handler runs data_dict = fetch_data():
\* one requests.get, answered by one upstream exchange.
fetch_data(w, U) ==
    /\ pc[w] = "idle"
    /\ \E r \in Routes : \E a \in ArgsOf(r, U) : \E up \in U.ups :
          /\ route' = [route EXCEPT ![w] = r]
          /\ args' = [args EXCEPT ![w] = a]
          /\ http' = [http EXCEPT ![w] = [gets |-> http[w].gets + 1, up |-> up]]
          /\ data_dict' = [data_dict EXCEPT ![w] = FetchData(up)]
    /\ pc' = [pc EXCEPT ![w] = "fetched"]
    /\ UNCHANGED <<locals, ext, resp, globals>>

\* A handler going on with a document kept in one module-level variable that
\* every request's fetch assigns: the one another request in flight fetched.
SharedDocument(w) ==
    LET others == {v \in DOMAIN data_dict : v # w /\ pc[v] # "idle"}
    IN IF others = {} THEN data_dict[w] ELSE data_dict[CHOOSE v \in others : TRUE]

\* The document worker w's handler goes on with: its own local data_dict.
OwnDocument(w) == data_dict[w]

\* Worker w's handler runs to its end as run, and Flask builds the response.
Complete(w, run) ==
    /\ locals' = [locals EXCEPT ![w] = [rv |-> run.rv, formatted_data |-> run.formatted_data,
                                        closest_epoch |-> run.closest_epoch,
                                        speed |-> run.speed, geo |-> run.geo]]
    /\ ext' = [ext EXCEPT ![w] = [clock |-> run.clock, transform |-> run.transform,
                                  geocode |-> run.geocode]]
    /\ resp' = [resp EXCEPT ![w] = FlaskResponse(run.rv)]
    /\ pc' = [pc EXCEPT ![w] = "done"]
    /\ UNCHANGED <<route, args, http, data_dict, globals>>

At(w, r) == pc[w] = "fetched" /\ route[w] = r

get_header(w) == At(w, "/header") /\ Complete(w, GetHeader(OwnDocument(w)))

get_comment(w) == At(w, "/comment") /\ Complete(w, GetComment(OwnDocument(w)))

get_metadata(w) == At(w, "/metadata") /\ Complete(w, GetMetadata(OwnDocument(w)))

get_epochs(w) == At(w, "/epochs") /\ Complete(w, GetEpochs(OwnDocument(w), args[w]))

get_epoch(w) == At(w, "/epochs/<epoch>") /\ Complete(w, GetEpoch(OwnDocument(w), args[w]))

get_epoch_speed(w) ==
    At(w, "/epochs/<epoch>/speed") /\ Complete(w, GetEpochSpeed(OwnDocument(w), args[w]))

get_epoch_location(w, U) ==
    /\ At(w, "/epochs/<epoch>/location")
    /\ \E tr \in U.trs : \E gc \in U.gcs :
          Complete(w, GetEpochLocation(OwnDocument(w), args[w], tr, gc))

get_now(w, U) ==
    /\ At(w, "/now")
    /\ \E clock \in U.clocks : \E tr \in U.trs : \E gc \in U.gcs :
          Complete(w, GetNow(OwnDocument(w), clock, tr, gc))

\* The response is sent; the worker's request context and locals are gone.
send_response(w) ==
    /\ pc[w] = "done"
    /\ pc' = [pc EXCEPT ![w] = "idle"]
    /\ route' = [route EXCEPT ![w] = ""]
    /\ args' = [args EXCEPT ![w] = NoArgs]
    /\ http' = [http EXCEPT ![w] = [gets |-> 0, up |-> NoUpstream]]
    /\ data_dict' = [data_dict EXCEPT ![w] = Unset]
    /\ locals' = [locals EXCEPT ![w] = NoLocals]
    /\ ext' = [ext EXCEPT ![w] = NoCalls]
    /\ resp' = [resp EXCEPT ![w] = NoResponse]
    /\ UNCHANGED globals

\* The worker threads Flask's server may run a request on.
Workers == {"w1", "w2"}

Active(w) == w \in DOMAIN pc

\* Requests served one at a time.
Init == InitWith({"w1"})

Next ==
    \E w \in Workers :
        \/ Active(w) /\ fetch_data(w, Universe)
        \/ Active(w) /\ get_header(w)
        \/ Active(w) /\ get_comment(w)
        \/ Active(w) /\ get_metadata(w)
        \/ Active(w) /\ get_epochs(w)
        \/ Active(w) /\ get_epoch(w)
        \/ Active(w) /\ get_epoch_speed(w)
        \/ Active(w) /\ get_epoch_location(w, Universe)
        \/ Active(w) /\ get_now(w, Universe)
        \/ Active(w) /\ send_response(w)

Spec == Init /\ [][Next]_vars

\* The inputs of the concurrent specification: two feeds, the three kinds of
\* failed fetch cut to two, and fewer arguments and outcomes.
ConcurrentUniverse ==
    [ups |-> {GetRaised, Response(503, TRUE, FeedDoc(<<EntryA>>)),
              Response(200, TRUE, FeedDoc(<<EntryA, EntryB>>)),
              Response(200, TRUE, FeedDoc(<<EntryB>>))},
     limits |-> {Absent, PyStr(IntText(1))}, offsets |-> {Absent},
     segs |-> {EncodeEpoch(Timestamp(2024, 2, 29, 12)), EncodeEpoch(Timestamp(2024, 3, 2, 12))},
     clocks |-> {DateTime(2026, 11, 3, 9, 30, 15, 250000)},
     trs |-> {TransformOk(0, 0, 420), CallRaised("ConvertError")},
     gcs |-> {GeoLocation("Houston, Texas, United States"), GeoNone}]

\* Two requests in flight at once, their steps interleaved.
InitConcurrent == InitWith(Workers)

NextConcurrent ==
    \E w \in Workers :
        \/ fetch_data(w, ConcurrentUniverse)
        \/ get_header(w)
        \/ get_comment(w)
        \/ get_metadata(w)
        \/ get_epochs(w)
        \/ get_epoch(w)
        \/ get_epoch_speed(w)
        \/ get_epoch_location(w, ConcurrentUniverse)
        \/ get_now(w, ConcurrentUniverse)
        \/ send_response(w)

SpecConcurrent == InitConcurrent /\ [][NextConcurrent]_vars

-----------------------------------------------------------------------------
(* The query functions and cartesian_to_geo called on their own, as the    *)
(* tests call them, beside the routes                                      *)

\* Worker w calls the function fn and the call returns or raises as run: route
\* holds the function's name, args.epoch the record given to cartesian_to_geo,
\* locals.formatted_data the list given to a query function and locals.rv what
\* came back.  No request is involved, so no response is built.
call(w, fn, epoch, run) ==
    /\ pc[w] = "idle"
    /\ pc' = [pc EXCEPT ![w] = "done"]
    /\ route' = [route EXCEPT ![w] = fn]
    /\ args' = [args EXCEPT ![w] = [limit |-> Absent, offset |-> Absent, epoch |-> epoch]]
    /\ locals' = [locals EXCEPT ![w] = [rv |-> run.rv, formatted_data |-> run.formatted_data,
                                        closest_epoch |-> run.closest_epoch,
                                        speed |-> run.speed, geo |-> run.geo]]
    /\ ext' = [ext EXCEPT ![w] = [clock |-> run.clock, transform |-> run.transform,
                                  geocode |-> run.geocode]]
    /\ UNCHANGED <<http, data_dict, resp, globals>>

\* The inputs of the specification with direct calls.  Feeds: no entry, one
\* malformed entry, one well-formed entry, and a failed fetch.  Records: two
\* as format_data makes them; one without a timestamp, one whose timestamp is
\* no date, one whose timestamp is None; one without z, one whose x is None;
\* one without dz.
CallsUniverse ==
    [ups |-> {Response(503, TRUE, FeedDoc(<<EntryA>>)),
              Response(200, TRUE, FeedDoc(<<>>)),
              Response(200, TRUE, FeedDoc(<<EntryNoKey>>)),
              Response(200, TRUE, FeedDoc(<<EntryA>>))},
     limits |-> {Absent}, offsets |-> {Absent},
     segs |-> {EncodeEpoch(Timestamp(2024, 2, 29, 12))},
     clocks |-> Clocks,
     trs |-> Transforms({106}),
     gcs |-> {GeoLocation("Houston, Texas, United States"), GeoNone},
     records |->
        LET a == FormatStateVector(EntryA).v
        IN {PyDict(a), FormatStateVector(EntryB),
            PyDict([k \in DOMAIN a \ {"timestamp"} |-> a[k]]),
            PyDict([a EXCEPT !["timestamp"] = PyStr(<<"s", "o", "o", "n">>)]),
            PyDict([a EXCEPT !["timestamp"] = PyNone]),
            PyDict([k \in DOMAIN a \ {"z"} |-> a[k]]),
            PyDict([a EXCEPT !["x"] = PyNone]),
            PyDict([k \in DOMAIN a \ {"dz"} |-> a[k]])}]

\* One worker serving requests and making direct calls, one at a time.
NextCalls ==
    \E w \in Workers :
        \/ Active(w) /\ fetch_data(w, CallsUniverse)
        \/ Active(w) /\ get_header(w)
        \/ Active(w) /\ get_comment(w)
        \/ Active(w) /\ get_metadata(w)
        \/ Active(w) /\ get_epochs(w)
        \/ Active(w) /\ get_epoch(w)
        \/ Active(w) /\ get_epoch_speed(w)
        \/ Active(w) /\ get_epoch_location(w, CallsUniverse)
        \/ Active(w) /\ get_now(w, CallsUniverse)
        \/ Active(w) /\ send_response(w)
        \/ /\ Active(w)
           /\ \E l \in UNION {[1..k -> CallsUniverse.records] : k \in 0..MaxEntries} :
                 call(w, "calculate_data_range", <<>>,
                      EndedWith(CalculateDataRange(PyList(l)), PyList(l)))
        \/ /\ Active(w)
           /\ \E l \in UNION {[1..k -> CallsUniverse.records] : k \in 0..MaxEntries} :
              \E clock \in CallsUniverse.clocks :
                 call(w, "find_closest_epoch", <<>>,
                      Run(FindClosestEpoch(PyList(l), clock), PyList(l), Unset, Unset, Unset,
                          clock, NotCalled, NotCalled))
        \/ /\ Active(w)
           /\ \E l \in UNION {[1..k -> CallsUniverse.records] : k \in 0..MaxEntries} :
                 call(w, "calculate_average_speed", <<>>,
                      EndedWith(CalculateAverageSpeed(PyList(l)), PyList(l)))
        \/ /\ Active(w)
           /\ \E epoch \in CallsUniverse.records :
              \E tr \in CallsUniverse.trs : \E gc \in CallsUniverse.gcs :
                 call(w, "cartesian_to_geo", epoch,
                      LocationRun(Unset, CartesianToGeo(epoch, tr, gc)))

SpecCalls == Init /\ [][NextCalls]_vars

-----------------------------------------------------------------------------
(* Properties: format_data, the extractors, fetch_data, the degraded routes *)

\* Worker w's handler has run to its end.
Done(w) == Active(w) /\ pc[w] = "done"

\* The routes whose handler calls format_data.
FormatRoutes ==
    {"/epochs", "/epochs/<epoch>", "/epochs/<epoch>/speed", "/epochs/<epoch>/location", "/now"}

NumericKeys == <<"X", "Y", "Z", "X_DOT", "Y_DOT", "Z_DOT">>

\* The raw entry sv has element key with a '#text' that float() accepts.
HasNumber(sv, key) ==
    /\ key \in DOMAIN sv.v
    /\ sv.v[key].t = "dict"
    /\ "#text" \in DOMAIN sv.v[key].v
    /\ ~IsRaise(PyFloatOf(sv.v[key].v["#text"]))

\* A well-formed raw entry: every key present, EPOCH and the six numbers parsable.
WellFormed(sv) ==
    /\ sv.t = "dict"
    /\ "EPOCH" \in DOMAIN sv.v
    /\ ~IsRaise(Strptime(sv.v["EPOCH"], EpochFormat, TRUE))
    /\ \A i \in 1..Len(NumericKeys) : HasNumber(sv, NumericKeys[i])

NumberOf(sv, key) == PyFloatOf(sv.v[key].v["#text"])

\* The record of a well-formed raw entry.
CanonicalRecord(sv) ==
    PyDict([timestamp |-> Strftime(Strptime(sv.v["EPOCH"], EpochFormat, TRUE)),
            x |-> NumberOf(sv, "X"), y |-> NumberOf(sv, "Y"), z |-> NumberOf(sv, "Z"),
            dx |-> NumberOf(sv, "X_DOT"), dy |-> NumberOf(sv, "Y_DOT"),
            dz |-> NumberOf(sv, "Z_DOT")])

RecordsOf(kept) == [i \in 1..Len(kept) |-> CanonicalRecord(kept[i])]

\* The records of the well-formed entries of raw, in the order of raw.
WellFormedRecords(raw) == RecordsOf(SelectSeq(raw, WellFormed))

\* What worker w's document holds at the stateVector path.
RawEntries(w) == GetPath(data_dict[w], StateVectorPath)

\* C1: for every list of raw entries, format_data returns exactly the records
\* of the well-formed entries, in the order of their entries: one record per
\* well-formed entry, none for an entry with a missing key or an unparsable
\* EPOCH or number, and the entries after a malformed one still processed.
C1_FormatDataSubsequence ==
    \A w \in Workers :
        (/\ Done(w)
         /\ route[w] \in FormatRoutes
         /\ ~IsRaise(data_dict[w])
         /\ RawEntries(w).t = "list")
        => locals[w].formatted_data = PyList(WellFormedRecords(RawEntries(w).v))

\* C1 witness: a list of two entries, the first malformed and the second
\* well formed, formatted to the second's record alone.
C1_MalformedThenWellFormed ==
    \E w \in Workers :
        /\ Done(w)
        /\ route[w] = "/epochs"
        /\ ~IsRaise(data_dict[w])
        /\ RawEntries(w).t = "list"
        /\ Len(RawEntries(w).v) = 2
        /\ ~WellFormed(RawEntries(w).v[1])
        /\ WellFormed(RawEntries(w).v[2])
        /\ locals[w].formatted_data = PyList(<<CanonicalRecord(RawEntries(w).v[2])>>)

\* Every key of path is present in obj, level by level.
RECURSIVE PathPresent(_, _)
PathPresent(obj, path) ==
    \/ path = <<>>
    \/ /\ obj.t = "dict"
       /\ Head(path) \in DOMAIN obj.v
       /\ PathPresent(obj.v[Head(path)], Tail(path))

\* What an extractor is to return: the value at the path, or its empty value.
ValueOrEmpty(obj, path, empty) == IF PathPresent(obj, path) THEN GetPath(obj, path) ELSE empty

\* C2: an extractor given what fetch_data returned (a document, or None after
\* a failed fetch) never raises: it returns the value at its key path when the
\* path is present and its empty value ({} for header and metadata, [] for
\* comments and state vectors) when the path breaks at any level.
C2_ExtractorsNeverRaise ==
    \A w \in Workers :
        (Done(w) /\ ~IsRaise(data_dict[w])) =>
            CASE route[w] = "/header" ->
                    locals[w].rv = ValueOrEmpty(data_dict[w], HeaderPath, EmptyDict)
              [] route[w] = "/comment" ->
                    locals[w].rv = ValueOrEmpty(data_dict[w], CommentPath, EmptyList)
              [] route[w] = "/metadata" ->
                    locals[w].rv = ValueOrEmpty(data_dict[w], MetadataPath, EmptyDict)
              [] OTHER ->
                    \/ PathPresent(data_dict[w], StateVectorPath)
                    \/ locals[w].formatted_data = EmptyList

\* One of the three kinds of failed fetch: requests.get raised, a status other
\* than 200, or a body that is not well-formed XML.
FetchFailed(up) == up.raised \/ up.status # 200 \/ ~up.wf

\* C3: fetch_data makes exactly one GET per call, returns None without raising
\* for each of the three kinds of failure, and returns the parsed document
\* only for a 200 response with well-formed XML.
C3_FetchDataAbsentOnFailure ==
    \A w \in Workers :
        (Active(w) /\ pc[w] # "idle") =>
            /\ http[w].gets = 1
            /\ data_dict[w] = IF FetchFailed(http[w].up) THEN PyNone ELSE http[w].up.tree

\* The routes that are to degrade to an empty or null body.
DegradingRoutes == {"/header", "/comment", "/metadata", "/epochs", "/now"}

\* The key path a degrading route reads.
RoutePath(r) ==
    CASE r = "/header" -> HeaderPath
      [] r = "/comment" -> CommentPath
      [] r = "/metadata" -> MetadataPath
      [] OTHER -> StateVectorPath

\* The empty or null body of a degrading route.
EmptyBody(r) ==
    CASE r \in {"/header", "/metadata"} -> EmptyDict
      [] r \in {"/comment", "/epochs"} -> EmptyList
      [] OTHER -> PyDict([closest_epoch |-> PyNone, speed |-> PyNone, geo |-> PyNone])

\* C4: on /header, /comment, /metadata, /epochs and /now a request whose fetch
\* failed and a request whose document lacks the key path are answered alike,
\* with status 200 and the route's empty or null body, never with a 500.
C4_DegradedRoutesAnswer200 ==
    \A w \in Workers :
        (/\ Done(w)
         /\ route[w] \in DegradingRoutes
         /\ \/ FetchFailed(http[w].up)
            \/ ~PathPresent(data_dict[w], RoutePath(route[w])))
        => resp[w] = [status |-> 200, body |-> EmptyBody(route[w])]

-----------------------------------------------------------------------------
(* Properties: the slice, the lookup by timestamp, the closest record *)

Min(a, b) == IF a < b THEN a ELSE b

Max(a, b) == IF a < b THEN b ELSE a

\* The least element of a non-empty set of integers.
Least(S) == CHOOSE i \in S : \A j \in S : i <= j

\* The number a client wrote as a query argument, default when it wrote none.
ArgValue(raw, default) ==
    IF raw = Absent THEN default ELSE CHOOSE i \in 0..MaxArg : raw = PyStr(IntText(i))

\* The sublist of L of k records from index o (0 based) on.
Sublist(L, o, k) == [i \in 1..k |-> L[o + i]]

\* How many records /epochs is to return from a list of n: all from offset o
\* on, or at most limit of them.
SliceLength(n, limit, o) ==
    IF limit = Absent THEN Max(0, n - o) ELSE Min(ArgValue(limit, 0), Max(0, n - o))

\* The body /epochs gives for the list L with this limit and offset 0.
UnoffsetBody(L, limit) ==
    EpochsOf(PyList(L), [limit |-> limit, offset |-> Absent, epoch |-> <<>>]).rv.v

\* C5: /epochs over the record list L with offset o (default 0) and limit n
\* (default: the rest) answers 200 with the contiguous sublist of L from index
\* o, of min(n, max(0, len(L) - o)) records when the limit is given and of all
\* records from o on when it is not; so element i of the response equals
\* element i + o of the response to the same list with offset 0.
C5_EpochsSlice ==
    \A w \in Workers :
        (Done(w) /\ route[w] = "/epochs" /\ locals[w].formatted_data.t = "list") =>
            LET L == locals[w].formatted_data.v
                o == ArgValue(args[w].offset, 0)
                k == SliceLength(Len(L), args[w].limit, o)
            IN /\ resp[w] = [status |-> 200, body |-> PyList(Sublist(L, o, k))]
               /\ \A limit \in IntArgs(MaxArg) : \A i \in 1..k :
                      i + o <= Len(UnoffsetBody(L, limit))
                      => resp[w].body.v[i] = UnoffsetBody(L, limit)[i + o]

\* C5 witness: two records, offset 1 and limit 2: the second record alone.
C5_OffsetAndLimit ==
    \E w \in Workers :
        /\ Done(w)
        /\ route[w] = "/epochs"
        /\ locals[w].formatted_data.t = "list"
        /\ Len(locals[w].formatted_data.v) = 2
        /\ args[w].offset = PyStr(IntText(1))
        /\ args[w].limit = PyStr(IntText(2))
        /\ resp[w] = [status |-> 200, body |-> PyList(<<locals[w].formatted_data.v[2]>>)]

\* The path segment s from position i on, read left to right: each "__" a
\* space, each remaining "_" a colon.
RECURSIVE ScanDecode(_, _)
ScanDecode(s, i) ==
    IF i > Len(s) THEN <<>>
    ELSE IF s[i] = "_" /\ i < Len(s) /\ s[i + 1] = "_" THEN <<" ">> \o ScanDecode(s, i + 2)
    ELSE IF s[i] = "_" THEN <<":">> \o ScanDecode(s, i + 1)
    ELSE <<s[i]>> \o ScanDecode(s, i + 1)

EpochRoutes == {"/epochs/<epoch>", "/epochs/<epoch>/speed", "/epochs/<epoch>/location"}

\* The indices of the records of L with timestamp ts.
Matches(L, ts) == {i \in 1..Len(L) : L[i].v.timestamp = PyStr(ts)}

EpochNotFound == [status |-> 404, body |-> PyDict([error |-> PyStr(<<"Epoch not found">>)])]

\* The answer of an epoch route from the record rec.
AnsweredFrom(w, rec) ==
    CASE route[w] = "/epochs/<epoch>" -> resp[w] = [status |-> 200, body |-> rec]
      [] route[w] = "/epochs/<epoch>/speed" ->
            /\ locals[w].speed = CalculateInstantaneousSpeed(rec)
            /\ resp[w] = [status |-> 200, body |-> PyDict([speed |-> locals[w].speed])]
      [] OTHER ->
            resp[w] = FlaskResponse(CartesianToGeo(rec, ext[w].transform, ext[w].geocode).rv)

\* C6: on the three epoch routes the segment is decoded "__" to space, then
\* "_" to colon; the answer is 404 {error: "Epoch not found"} exactly when no
\* record's timestamp equals the decoded segment, and otherwise comes from the
\* first such record; and every record's timestamp, encoded space to "__" and
\* colon to "_", decodes back to itself and is found.
C6_EpochLookup ==
    \A w \in Workers :
        (Done(w) /\ route[w] \in EpochRoutes /\ locals[w].formatted_data.t = "list") =>
            LET L == locals[w].formatted_data.v
                found == Matches(L, ScanDecode(args[w].epoch, 1))
            IN /\ (resp[w] = EpochNotFound) <=> (found = {})
               /\ found # {} => AnsweredFrom(w, L[Least(found)])
               /\ \A i \in 1..Len(L) :
                     LET ts == L[i].v.timestamp.v
                     IN /\ ScanDecode(EncodeEpoch(ts), 1) = ts
                        /\ DecodeEpoch(EncodeEpoch(ts)) = ts
                        /\ EpochOf(PyList(L), DecodeEpoch(EncodeEpoch(ts))).rv.v.timestamp
                               = PyStr(ts)

\* C6 witness: two different records with the timestamp asked for, the
\* answer being the first.
C6_FirstOfTwoMatches ==
    \E w \in Workers :
        /\ Done(w)
        /\ route[w] = "/epochs/<epoch>"
        /\ locals[w].formatted_data.t = "list"
        /\ Matches(locals[w].formatted_data.v, ScanDecode(args[w].epoch, 1)) = {1, 2}
        /\ locals[w].formatted_data.v[1] # locals[w].formatted_data.v[2]
        /\ resp[w] = [status |-> 200, body |-> locals[w].formatted_data.v[1]]

\* An instant as << whole seconds since 1 January 2000, microseconds >>.
Instant(Y, m, d, H, M, S, f) ==
    << (Ordinal(Y, m, d) - Ordinal(2000, 1, 1)) * 86400 + H * 3600 + M * 60 + S, f >>

\* The instant a canonical timestamp YYYY-MM-DD hh:mm:ss.ffffff names.
InstantOfText(ts) ==
    Instant(DigitsValue(ts, 1, 4), DigitsValue(ts, 6, 2), DigitsValue(ts, 9, 2),
            DigitsValue(ts, 12, 2), DigitsValue(ts, 15, 2), DigitsValue(ts, 18, 2),
            DigitsValue(ts, 21, 6))

InstantOfClock(dt) == Instant(dt.v.Y, dt.v.m, dt.v.d, dt.v.H, dt.v.M, dt.v.S, dt.v.f)

\* Instant a is not after instant b.
NotAfter(a, b) == a[1] < b[1] \/ (a[1] = b[1] /\ a[2] <= b[2])

\* b - a for a not after b, as << seconds, microseconds >>.
Elapsed(a, b) ==
    IF b[2] >= a[2] THEN <<b[1] - a[1], b[2] - a[2]>>
    ELSE <<b[1] - a[1] - 1, b[2] - a[2] + 1000000>>

\* The absolute difference of two instants.
Distance(a, b) == IF NotAfter(a, b) THEN Elapsed(a, b) ELSE Elapsed(b, a)

\* The indices of the records of L closest to the instant now.
Closest(L, now) ==
    {i \in 1..Len(L) :
        \A j \in 1..Len(L) :
            NotAfter(Distance(InstantOfText(L[i].v.timestamp.v), now),
                     Distance(InstantOfText(L[j].v.timestamp.v), now))}

\* C7: on a non-empty record list find_closest_epoch returns the first record
\* of the list among those whose timestamp is at the least absolute
\* difference from the current instant; when every timestamp lies in the
\* past, that record has the latest timestamp of the list.
C7_ClosestEpochFirstMinimum ==
    \A w \in Workers :
        (/\ Done(w)
         /\ route[w] = "/now"
         /\ locals[w].formatted_data.t = "list"
         /\ locals[w].formatted_data.v # <<>>) =>
            LET L == locals[w].formatted_data.v
                now == InstantOfClock(ext[w].clock)
                stamp(r) == InstantOfText(r.v.timestamp.v)
            IN /\ locals[w].closest_epoch = L[Least(Closest(L, now))]
               /\ (\A i \in 1..Len(L) : NotAfter(stamp(L[i]), now))
                  => \A i \in 1..Len(L) : NotAfter(stamp(L[i]), stamp(locals[w].closest_epoch))

\* C7 witness: two different records at the same distance either side of the
\* current instant, the first one returned.
C7_TieGoesToFirst ==
    \E w \in Workers :
        /\ Done(w)
        /\ route[w] = "/now"
        /\ locals[w].formatted_data.t = "list"
        /\ Len(locals[w].formatted_data.v) = 2
        /\ Closest(locals[w].formatted_data.v, InstantOfClock(ext[w].clock)) = {1, 2}
        /\ locals[w].formatted_data.v[1] # locals[w].formatted_data.v[2]
        /\ locals[w].closest_epoch = locals[w].formatted_data.v[1]

-----------------------------------------------------------------------------
(* Properties: cartesian_to_geo, independence of requests *)

\* Worker w's cartesian_to_geo got an EarthLocation from the frame transform,
\* its longitude in [-180, 180] and its latitude in [-90, 90].
Transformed(w) ==
    /\ Done(w)
    /\ ext[w].transform.kind = "ok"
    /\ ext[w].transform.lon \in -180..180
    /\ ext[w].transform.lat \in -90..90

\* C8: for every longitude in [-180, 180] the frame transform delivers, the
\* longitude cartesian_to_geo returns is that longitude plus 75, less 360 when
\* that exceeds 180, and lies in [-180, 180]; the latitude is returned as
\* delivered, within [-90, 90].
C8_LongitudeInRange ==
    \A w \in Workers :
        (Transformed(w) /\ locals[w].geo.t = "list") =>
            LET g == locals[w].geo.v[1].v
                shifted == ext[w].transform.lon + 75
            IN /\ g.lon.v = IF shifted > 180 THEN shifted - 360 ELSE shifted
               /\ g.lon.v \in -180..180
               /\ g.lat.v = ext[w].transform.lat
               /\ g.lat.v \in -90..90

\* C8 witness: a delivered longitude of 106 degrees or more, returned wrapped
\* to a negative longitude.
C8_WrappedLongitude ==
    \E w \in Workers :
        /\ Transformed(w)
        /\ locals[w].geo.t = "list"
        /\ ext[w].transform.lon >= 106
        /\ locals[w].geo.v[1].v.lon.v = ext[w].transform.lon - 285
        /\ locals[w].geo.v[1].v.lon.v < 0

\* The place cartesian_to_geo is to report for what the geocoder did.
PlaceFor(geocode) ==
    IF geocode.kind = "location" THEN PyStr(<<geocode.address>>)
    ELSE PyStr(<<"Over Ocean or Unknown">>)

\* C9: once the frame transform has succeeded, cartesian_to_geo returns a
\* location with the computed lat, corrected lon and alt whatever the geocoder
\* does: with the result's address when it returns one, and with "Over Ocean
\* or Unknown" when it returns none or raises.
C9_GeocodingMissNeverFails ==
    \A w \in Workers :
        (Transformed(w) /\ ext[w].geocode.kind \in {"location", "none", "raise"}) =>
            locals[w].geo =
                PyList(<< PyDict([lat |-> PyFloat(ext[w].transform.lat),
                                  lon |-> PyFloat(CorrectLon(ext[w].transform.lon)),
                                  alt |-> PyFloat(ext[w].transform.alt),
                                  geoloc |-> PlaceFor(ext[w].geocode)]) >>)

\* The response to worker w's request had it run alone: its handler run on
\* what its own fetch, clock read, transform and geocoder call returned.
AloneResponse(w) ==
    FlaskResponse(View(route[w], args[w], FetchData(http[w].up), ext[w].clock,
                       ext[w].transform, ext[w].geocode).rv)

\* C10: requests share no mutable state: the module globals never change,
\* every handler makes one fetch of its own, and under any interleaving and
\* after any earlier requests the response to a request is the one it gets
\* when run alone on what its own fetch, clock read and geocoder call returned.
C10_RequestsIndependent ==
    /\ globals = ModuleGlobals
    /\ \A w \in Workers :
          /\ (Active(w) /\ pc[w] # "idle") => http[w].gets = 1
          /\ Done(w) => resp[w] = AloneResponse(w)

\* C10 witness: two requests in flight on different documents, one answered
\* 200 from its own document while the other's fetch has failed.
C10_TwoRequestsInFlight ==
    \E w \in Workers : \E v \in Workers \ {w} :
        /\ Done(w)
        /\ Active(v)
        /\ pc[v] \in {"fetched", "done"}
        /\ FetchFailed(http[v].up)
        /\ ~FetchFailed(http[w].up)
        /\ data_dict[v] # data_dict[w]
        /\ resp[w].status = 200

-----------------------------------------------------------------------------
(* Properties: controlled failure of cartesian_to_geo and of the query     *)
(* functions                                                               *)

\* The record's timestamp is missing or is no text of a date.
BadTimestamp(epoch) ==
    \/ "timestamp" \notin DOMAIN epoch.v
    \/ IsRaise(Strptime(epoch.v["timestamp"], TimestampFormat, FALSE))

\* One of the record's position fields is missing or is no number.
BadPosition(epoch) ==
    \E k \in {"x", "y", "z"} : k \notin DOMAIN epoch.v \/ epoch.v[k].t \notin {"float", "int"}

\* C11: cartesian_to_geo given a record whose timestamp is missing or
\* unparsable, or whose x, y or z is missing or unparsable, or for which the
\* frame transform fails, returns None: it raises nothing to its caller, and
\* it does not go on to the longitude and the geocoder.
C11_ControlledAbort ==
    \A w \in Workers :
        (/\ Done(w)
         /\ \/ /\ route[w] = "cartesian_to_geo"
               /\ BadTimestamp(args[w].epoch) \/ BadPosition(args[w].epoch)
            \/ ext[w].transform.kind = "raise")
        => /\ locals[w].geo = PyNone
           /\ ext[w].geocode = NotCalled

\* The query functions that take the whole record list.
ListFunctions == {"calculate_data_range", "find_closest_epoch", "calculate_average_speed"}

\* C12: on an empty record list calculate_data_range, find_closest_epoch and
\* calculate_average_speed each return None and raise nothing; and /now over
\* an empty normalised list answers 200 with closest_epoch, speed and geo all
\* null.
C12_EmptyListControlled ==
    \A w \in Workers :
        (Done(w) /\ locals[w].formatted_data = EmptyList) =>
            /\ route[w] \in ListFunctions => locals[w].rv = PyNone
            /\ route[w] = "/now" =>
                  /\ locals[w].closest_epoch = PyNone
                  /\ locals[w].speed = PyNone
                  /\ locals[w].geo = PyNone
                  /\ ext[w].transform = NotCalled
                  /\ ext[w].geocode = NotCalled
                  /\ resp[w] = [status |-> 200,
                                body |-> PyDict([closest_epoch |-> PyNone, speed |-> PyNone,
                                                 geo |-> PyNone])]

\* C12 witness: /now on a fetched feed whose only entry is malformed, so that
\* the normalised list is empty, answered 200 with the three nulls.
C12_NowOverEmptyList ==
    \E w \in Workers :
        /\ Done(w)
        /\ route[w] = "/now"
        /\ ~FetchFailed(http[w].up)
        /\ RawEntries(w).t = "list"
        /\ Len(RawEntries(w).v) = 1
        /\ locals[w].formatted_data = EmptyList
        /\ locals[w].closest_epoch = PyNone
        /\ resp[w].status = 200
        /\ resp[w].body.v.geo = PyNone

=============================================================================
